---- MODULE Spec2Model ----
(***************************************************************************)
(* A model of pmc.py, the interactive media converter: the main menu loop, *)
(* the directory scan, the format and file selectors and the batch         *)
(* converter.  Python strings are sequences of one-character strings, so   *)
(* that lower(), strip(), split(','), int() and sorted() are computed and  *)
(* not assumed.                                                            *)
(***************************************************************************)
EXTENDS Integers, Sequences, FiniteSets, TLC

(***************************************************************************)
(* Bounds of the model.                                                    *)
(***************************************************************************)
\* the most entries of a comma-separated selection line that is typed
MaxEntries == 2
\* the largest index that is typed at a numbered menu
MaxIndex == 3
\* the most media files of one extension in the directory at start
MaxFiles == 2

(***************************************************************************)
(* Characters and Python's string operations.                              *)
(***************************************************************************)
\* the characters of the model: chr(1) .. chr(255), Chars[n] being chr(n) (the
\* grave accent, which a string here cannot hold, is written U+0060)
Chars ==
    <<"","","","","","","","","\t","\n","","\f","\r","","",
      "","","","","","","","","","","","","","","","",
      " ","!","\"","#","$","%","&","'","(",")","*","+",",","-",".","/",
      "0","1","2","3","4","5","6","7","8","9",":",";","<","=",">","?",
      "@","A","B","C","D","E","F","G","H","I","J","K","L","M","N","O",
      "P","Q","R","S","T","U","V","W","X","Y","Z","[","\\","]","^","_",
      "U+0060","a","b","c","d","e","f","g","h","i","j","k","l","m","n","o",
      "p","q","r","s","t","u","v","w","x","y","z","{","|","}","~","",
      "","","","","","","","","","","","","","","","",
      "","","","","","","","","","","","","","","","",
      " ","¡","¢","£","¤","¥","¦","§","¨","©","ª","«","¬","­","®","¯",
      "°","±","²","³","´","µ","¶","·","¸","¹","º","»","¼","½","¾","¿",
      "À","Á","Â","Ã","Ä","Å","Æ","Ç","È","É","Ê","Ë","Ì","Í","Î","Ï",
      "Ð","Ñ","Ò","Ó","Ô","Õ","Ö","×","Ø","Ù","Ú","Û","Ü","Ý","Þ","ß",
      "à","á","â","ã","ä","å","æ","ç","è","é","ê","ë","ì","í","î","ï",
      "ð","ñ","ò","ó","ô","õ","ö","÷","ø","ù","ú","û","ü","ý","þ","ÿ">>

Range(s) == {s[i] : i \in 1..Len(s)}

\* the characters beyond chr(255) that str.upper() and str.lower() make of
\* characters of the model: the capital letters of the micro sign and of y
\* with diaeresis, and the small letter of the former
C_Mu == "Μ"
C_mu == "μ"
C_Ydiaeresis == "U+0178"

\* the place of each element of a sequence without repetitions
PlaceIn(s) == [c \in Range(s) |-> CHOOSE n \in DOMAIN s : s[n] = c]

\* ord(c), a table
OrdTable == PlaceIn(Chars) @@ (C_Mu :> 924) @@ (C_mu :> 956) @@ (C_Ydiaeresis :> 376)

\* ord(c)
Ord(c) == OrdTable[c]

Digits == <<"0","1","2","3","4","5","6","7","8","9">>

DigitSet == Range(Digits)

\* the letters that str.lower() changes: A-Z and the capital letters of
\* Latin-1 (not the multiplication sign), each 32 below its small letter
IsUpperLetter(n) == (65 <= n /\ n <= 90) \/ (192 <= n /\ n <= 222 /\ n # 215)

\* the letters whose capital letter is 32 below: a-z and the small letters of
\* Latin-1 (not the division sign, not the sharp s, not y with diaeresis)
IsLowerLetter(n) == (97 <= n /\ n <= 122) \/ (224 <= n /\ n <= 254 /\ n # 247)

\* the small letter of the character c, n being ord(c)
LowerOf(c, n) ==
    IF IsUpperLetter(n) THEN Chars[n + 32]
    ELSE IF n = 924 THEN C_mu
    ELSE IF n = 376 THEN Chars[255]
    ELSE c

\* c.lower(), a character
LowerChar(c) == LowerOf(c, Ord(c))

\* the capital letters of the character c, n being ord(c): the sharp s becomes SS; the capital letters of the
\* micro sign and of y with diaeresis lie beyond chr(255) (the latter, which a
\* string here cannot hold, is written U+0178)
UpperOf(c, n) ==
    IF IsLowerLetter(n) THEN <<Chars[n - 32]>>
    ELSE IF n = 223 THEN <<"S", "S">>
    ELSE IF n = 181 THEN <<C_Mu>>
    ELSE IF n = 255 THEN <<C_Ydiaeresis>>
    ELSE IF n = 956 THEN <<C_Mu>>
    ELSE <<c>>

\* c.upper(), a string
UpperChar(c) == UpperOf(c, Ord(c))

\* str.lower()
Lower(s) == [i \in 1..Len(s) |-> LowerChar(s[i])]

\* str.upper()
RECURSIVE Upper(_)
Upper(s) == IF s = <<>> THEN <<>> ELSE UpperChar(Head(s)) \o Upper(Tail(s))

\* c.isspace(): the characters that str.strip() drops
IsSpace(c) == Ord(c) \in {32, 133, 160} \cup (9..13) \cup (28..31)

\* the characters that int() drops around a literal: those of isspace()
\* except the separators chr(28) .. chr(31)
IsIntSpace(c) == IsSpace(c) /\ Ord(c) \notin 28..31

RECURSIVE LStrip(_)
LStrip(s) == IF s # <<>> /\ IsSpace(Head(s)) THEN LStrip(Tail(s)) ELSE s

RECURSIVE RStrip(_)
RStrip(s) ==
    IF s # <<>> /\ IsSpace(s[Len(s)]) THEN RStrip(SubSeq(s, 1, Len(s) - 1)) ELSE s

\* str.strip()
Strip(s) == RStrip(LStrip(s))

\* str.startswith(p)
StartsWith(s, p) == Len(s) >= Len(p) /\ SubSeq(s, 1, Len(p)) = p

\* str.endswith(p)
EndsWith(s, p) == Len(s) >= Len(p) /\ SubSeq(s, Len(s) - Len(p) + 1, Len(s)) = p

\* c in s
Contains(s, c) == \E i \in 1..Len(s) : s[i] = c

\* str.split(c): the pieces between the occurrences of c, empty pieces kept
RECURSIVE SplitOn(_, _, _)
SplitOn(s, c, cur) ==
    IF s = <<>> THEN <<cur>>
    ELSE IF Head(s) = c THEN <<cur>> \o SplitOn(Tail(s), c, <<>>)
    ELSE SplitOn(Tail(s), c, Append(cur, Head(s)))

Split(s, c) == SplitOn(s, c, <<>>)

\* the value of an unsigned literal: the underscores between digits are skipped
RECURSIVE DigitsValue(_, _)
DigitsValue(s, acc) ==
    IF s = <<>> THEN acc
    ELSE IF Head(s) = "_" THEN DigitsValue(Tail(s), acc)
    ELSE DigitsValue(Tail(s), 10 * acc + (Ord(Head(s)) - 48))

\* the unsigned literals that int() accepts: decimal digits, with single
\* underscores allowed between two digits
AllDigits(s) ==
    /\ s # <<>>
    /\ s[1] \in DigitSet
    /\ s[Len(s)] \in DigitSet
    /\ \A i \in 1..Len(s) : s[i] \in DigitSet \cup {"_"}
    /\ \A i \in 1..(Len(s) - 1) : ~(s[i] = "_" /\ s[i + 1] = "_")

RECURSIVE IntLStrip(_)
IntLStrip(s) == IF s # <<>> /\ IsIntSpace(Head(s)) THEN IntLStrip(Tail(s)) ELSE s

RECURSIVE IntRStrip(_)
IntRStrip(s) ==
    IF s # <<>> /\ IsIntSpace(s[Len(s)]) THEN IntRStrip(SubSeq(s, 1, Len(s) - 1)) ELSE s

\* int(s): surrounding whitespace is dropped, one sign is allowed, then an
\* unsigned literal; anything else raises ValueError
PyInt(s) ==
    LET t == IntRStrip(IntLStrip(s))
        signed == t # <<>> /\ Head(t) \in {"+", "-"}
        body == IF signed THEN Tail(t) ELSE t
    IN  IF AllDigits(body)
        THEN [ok |-> TRUE,
              value |-> IF signed /\ Head(t) = "-"
                        THEN 0 - DigitsValue(body, 0) ELSE DigitsValue(body, 0)]
        ELSE [ok |-> FALSE, value |-> 0]

\* s < t for Python strings: lexicographic by code point
RECURSIVE StrLess(_, _)
StrLess(s, t) ==
    IF t = <<>> THEN FALSE
    ELSE IF s = <<>> THEN TRUE
    ELSE IF Head(s) = Head(t) THEN StrLess(Tail(s), Tail(t))
    ELSE Ord(Head(s)) < Ord(Head(t))

\* (mutant: the comparison is ignored)
Insert_Front(x, sorted) == <<x>> \o sorted

RECURSIVE Insert(_, _)
Insert(x, sorted) ==
    IF sorted = <<>> THEN <<x>>
    ELSE IF StrLess(x, Head(sorted)) THEN <<x>> \o sorted
    ELSE <<Head(sorted)>> \o Insert(x, Tail(sorted))

\* (mutant: the list is used as glob returned it)
Sorted_Unsorted(list) == list

\* sorted(list): ascending, stable
RECURSIVE Sorted(_)
Sorted(list) ==
    IF list = <<>> THEN <<>>
    ELSE Insert(list[Len(list)], Sorted(SubSeq(list, 1, Len(list) - 1)))

RECURSIVE LastIndexOf(_, _)
LastIndexOf(s, c) ==
    IF s = <<>> THEN 0
    ELSE IF s[Len(s)] = c THEN Len(s)
    ELSE LastIndexOf(SubSeq(s, 1, Len(s) - 1), c)

\* os.path.basename(p)
Basename(p) == SubSeq(p, LastIndexOf(p, "/") + 1, Len(p))

\* os.path.dirname(p)
RECURSIVE StripSlashes(_)
StripSlashes(s) ==
    IF s # <<>> /\ s[Len(s)] = "/" /\ \E i \in 1..Len(s) : s[i] # "/"
    THEN StripSlashes(SubSeq(s, 1, Len(s) - 1)) ELSE s

Dirname(p) == StripSlashes(SubSeq(p, 1, LastIndexOf(p, "/")))

\* os.path.splitext(name)[0], for a name without a directory part: the
\* extension starts at the last dot, unless only dots precede it
SplitextRoot(name) ==
    LET d == LastIndexOf(name, ".")
    IN  IF d > 0 /\ \E i \in 1..(d - 1) : name[i] # "." THEN SubSeq(name, 1, d - 1)
        ELSE name

\* os.path.join(a, b)
PathJoin(a, b) ==
    IF b # <<>> /\ Head(b) = "/" THEN b
    ELSE IF a = <<>> \/ a[Len(a)] = "/" THEN a \o b
    ELSE a \o <<"/">> \o b

(***************************************************************************)
(* String constants of the program.                                        *)
(***************************************************************************)
S_0 == <<"0">>
S_1 == <<"1">>
S_q == <<"q">>
S_exit == <<"e","x","i","t">>
S_quit == <<"q","u","i","t">>
S_cancel == <<"c","a","n","c","e","l">>
S_back == <<"b","a","c","k">>
S_y == <<"y">>
S_C == <<"C">>
S_Q == <<"Q">>
S_CANCEL == <<"C","A","N","C","E","L">>
S_BACK == <<"B","A","C","K">>
S_dot == <<".">>

\* the catalog of glob patterns that the scan tries, in its order
media_extensions ==
    << <<"*",".","m","p","4">>,
       <<"*",".","a","v","i">>,
       <<"*",".","m","k","v">>,
       <<"*",".","m","o","v">>,
       <<"*",".","w","m","v">>,
       <<"*",".","f","l","v">>,
       <<"*",".","w","e","b","m">>,
       <<"*",".","m","4","v">>,
       <<"*",".","t","s">>,
       <<"*",".","3","g","p">>,
       <<"*",".","m","p","3">>,
       <<"*",".","w","a","v">>,
       <<"*",".","f","l","a","c">>,
       <<"*",".","a","a","c">>,
       <<"*",".","o","g","g">>,
       <<"*",".","w","m","a">>,
       <<"*",".","m","4","a">>,
       <<"*",".","o","p","u","s">>,
       <<"*",".","j","p","g">>,
       <<"*",".","j","p","e","g">>,
       <<"*",".","p","n","g">>,
       <<"*",".","g","i","f">>,
       <<"*",".","b","m","p">>,
       <<"*",".","t","i","f","f">>,
       <<"*",".","w","e","b","p">>,
       <<"*",".","v","o","b">>,
       <<"*",".","m","p","g">>,
       <<"*",".","m","p","e","g">>,
       <<"*",".","m","x","f">>,
       <<"*",".","d","i","v","x">>,
       <<"*",".","m","2","t","s">> >>

\* the output formats of the numbered menu, in its order
common_formats ==
    << <<"m","p","4">>,
       <<"a","v","i">>,
       <<"m","k","v">>,
       <<"m","o","v">>,
       <<"w","e","b","m">>,
       <<"m","4","v">>,
       <<"m","p","3">>,
       <<"w","a","v">>,
       <<"f","l","a","c">>,
       <<"a","a","c">>,
       <<"o","g","g">>,
       <<"m","4","a">>,
       <<"j","p","g">>,
       <<"p","n","g">>,
       <<"g","i","f">>,
       <<"w","e","b","p">> >>

(***************************************************************************)
(* Directory Scanner.                                                      *)
(***************************************************************************)
\* fnmatch of a path below the directory against a pattern "*<suffix>" as glob
\* applies it: glob lists the directory itself, so a path in a subdirectory is
\* never seen; the name ends with the suffix, and a name with a leading dot is
\* hidden
GlobMatches(name, pattern) ==
    /\ ~Contains(name, "/")
    /\ ~StartsWith(name, S_dot)
    /\ EndsWith(name, Tail(pattern))

\* the sequences that list every element of S once
PermSeqs(S) ==
    {s \in [1..Cardinality(S) -> S] : \A i, j \in 1..Cardinality(S) : i # j => s[i] # s[j]}

\* what glob.glob(os.path.join('.', pattern)) can return in a directory with
\* these entries: the matching entries, as ./name, in the order the system
\* lists them
GlobResults(entries, pattern) ==
    PermSeqs({<<".", "/">> \o n : n \in {e \in entries : GlobMatches(e, pattern)}})

\* one result for each pattern of the catalog
GlobChoices(entries) ==
    LET hit == {p \in Range(media_extensions) : \E e \in entries : GlobMatches(e, p)}
        lists == UNION {GlobResults(entries, p) : p \in hit}
    IN  {[p \in Range(media_extensions) |-> IF p \in hit THEN h[p] ELSE <<>>] :
            h \in {f \in [hit -> lists] : \A p \in hit : f[p] \in GlobResults(entries, p)}}

\* (mutant: the test `if files:` is left out)
get_media_files_in_directory_NoFilter(glob) ==
    [ext \in {Tail(p) : p \in Range(media_extensions)} |-> glob[<<"*">> \o ext]]

\* get_media_files_in_directory: glob[p] is what glob.glob returned for pattern p;
\* the key of a pattern is pattern[1:]
get_media_files_in_directory(glob) ==
    LET kept == {p \in Range(media_extensions) : glob[p] # <<>>}
    IN  [ext \in {Tail(p) : p \in kept} |-> glob[<<"*">> \o ext]]

(***************************************************************************)
(* Format Selector.                                                        *)
(***************************************************************************)
\* sorted(files_by_extension.keys())
RECURSIVE SetToSortedSeq(_)
SetToSortedSeq(S) ==
    IF S = {} THEN <<>>
    ELSE LET m == CHOOSE x \in S : \A y \in S : y = x \/ StrLess(x, y)
         IN  <<m>> \o SetToSortedSeq(S \ {m})

\* (mutant: the keys in the order the scan inserted them, that of the catalog)
sorted_extensions_AsInserted(fbe) ==
    SelectSeq([i \in 1..Len(media_extensions) |-> Tail(media_extensions[i])],
              LAMBDA k : k \in DOMAIN fbe)

sorted_extensions(fbe) == SetToSortedSeq(DOMAIN fbe)

\* one pass of the prompt loop of get_input_format_menu on the line typed
InputFormatStep(fbe, choice) ==
    IF Lower(choice) \in {S_q, S_exit, S_quit}
    THEN [kind |-> "none", value |-> <<>>]
    ELSE LET n == PyInt(choice)
         IN  IF ~n.ok THEN [kind |-> "again", value |-> <<>>]
             ELSE IF n.value = 0 THEN [kind |-> "none", value |-> <<>>]
             ELSE IF 1 <= n.value /\ n.value <= Len(sorted_extensions(fbe))
                  THEN [kind |-> "value", value |-> sorted_extensions(fbe)[n.value]]
             ELSE [kind |-> "again", value |-> <<>>]

\* one pass of the prompt loop of get_output_format on the line typed
\* ("custom": the custom format is asked for next)
OutputFormatStep(line) ==
    LET choice == Upper(Strip(line))
    IN  IF choice \in {S_0, S_Q, S_CANCEL, S_BACK}
        THEN [kind |-> "none", value |-> <<>>]
        ELSE IF choice = S_C THEN [kind |-> "custom", value |-> <<>>]
        ELSE LET n == PyInt(choice)
             IN  IF ~n.ok THEN [kind |-> "again", value |-> <<>>]
                 ELSE IF n.value = 0 THEN [kind |-> "none", value |-> <<>>]
                 ELSE IF 1 <= n.value /\ n.value <= Len(common_formats)
                      THEN [kind |-> "value", value |-> common_formats[n.value]]
                 ELSE [kind |-> "again", value |-> <<>>]

\* (mutant: the leading dot is not looked for)
CustomFormatStep_AcceptDot(line) ==
    LET custom_format == Lower(Strip(line))
    IN  IF custom_format = S_0 THEN [kind |-> "none", value |-> <<>>]
        ELSE IF custom_format # <<>>
             THEN [kind |-> "value", value |-> custom_format]
        ELSE [kind |-> "again", value |-> <<>>]

\* the custom format prompt of get_output_format on the line typed
CustomFormatStep(line) ==
    LET custom_format == Lower(Strip(line))
    IN  IF custom_format = S_0 THEN [kind |-> "none", value |-> <<>>]
        ELSE IF custom_format # <<>> /\ ~StartsWith(custom_format, S_dot)
             THEN [kind |-> "value", value |-> custom_format]
        ELSE [kind |-> "again", value |-> <<>>]

(***************************************************************************)
(* File Selector.                                                          *)
(***************************************************************************)
\* [int(x.strip()) for x in choice.split(',')]: ok is FALSE when some int() raises
ParseIndices(choice) ==
    LET parts == Split(choice, ",")
        parsed == [i \in 1..Len(parts) |-> PyInt(Strip(parts[i]))]
    IN  [ok |-> \A i \in 1..Len(parts) : parsed[i].ok,
         values |-> [i \in 1..Len(parts) |-> parsed[i].value]]

\* (mutant: 0 in a list is one more index out of range)
IndexKind_NoCancel(idx, n) == IF 1 <= idx /\ idx <= n THEN "select" ELSE "invalid"

\* (mutant: the last file cannot be chosen in a list)
IndexKind_OffByOne(idx, n) ==
    IF idx = 0 THEN "cancel" ELSE IF 1 <= idx /\ idx < n THEN "select" ELSE "invalid"

\* the branch taken for one index of a comma-separated selection of n files
IndexKind(idx, n) ==
    IF idx = 0 THEN "cancel" ELSE IF 1 <= idx /\ idx <= n THEN "select" ELSE "invalid"

\* the loop over the indices of a comma-separated selection: the files
\* selected so far and the indices reported so far as invalid
RECURSIVE SelectLoop(_, _, _, _)
SelectLoop(indices, sorted_files, selected_files, invalid) ==
    IF indices = <<>>
    THEN IF selected_files # <<>>
         THEN [kind |-> "return", value |-> selected_files, invalid |-> invalid]
         ELSE [kind |-> "again", value |-> <<>>, invalid |-> invalid]
    ELSE LET idx == Head(indices)
             kind == IndexKind(idx, Len(sorted_files))
         IN  IF kind = "cancel"
             THEN [kind |-> "return", value |-> <<>>, invalid |-> invalid]
             ELSE IF kind = "select"
                  THEN SelectLoop(Tail(indices), sorted_files,
                                  Append(selected_files, sorted_files[idx]), invalid)
             ELSE SelectLoop(Tail(indices), sorted_files,
                             selected_files, Append(invalid, idx))

\* one pass of the prompt loop of select_files_menu on the line typed
SelectFilesStep(files, choice) ==
    LET sorted_files == Sorted(files)
    IN  IF Lower(choice) \in {S_cancel, S_back, S_q, S_quit, S_exit}
        THEN [kind |-> "return", value |-> <<>>, invalid |-> <<>>]
        ELSE IF Contains(choice, ",")
        THEN LET indices == ParseIndices(choice)
             IN  IF ~indices.ok
                 THEN [kind |-> "again", value |-> <<>>, invalid |-> <<>>]
                 ELSE SelectLoop(indices.values, sorted_files, <<>>, <<>>)
        ELSE LET n == PyInt(choice)
             IN  IF ~n.ok THEN [kind |-> "again", value |-> <<>>, invalid |-> <<>>]
                 ELSE IF n.value = -1
                      THEN [kind |-> "return", value |-> sorted_files, invalid |-> <<>>]
                 ELSE IF n.value = 0
                      THEN [kind |-> "return", value |-> <<>>, invalid |-> <<>>]
                 ELSE IF 1 <= n.value /\ n.value <= Len(sorted_files)
                      THEN [kind |-> "return", value |-> <<sorted_files[n.value]>>,
                            invalid |-> <<>>]
                 ELSE [kind |-> "again", value |-> <<>>, invalid |-> <<>>]

(***************************************************************************)
(* Batch Converter and Conversion Invoker.                                 *)
(***************************************************************************)
\* (mutant: the extension of the input is kept in the name)
OutputFile_KeepExt(input_file, output_dir, output_format) ==
    PathJoin(IF output_dir # <<>> THEN output_dir ELSE <<>>,
             Basename(input_file) \o S_dot \o output_format)

\* the output path of one file of a batch
OutputFile(input_file, output_dir, output_format) ==
    LET base_name == Basename(input_file)
        name_without_ext == SplitextRoot(base_name)
    IN  PathJoin(IF output_dir # <<>> THEN output_dir ELSE <<>>,
                 name_without_ext \o S_dot \o output_format)

\* (mutant: the keyword is compared as typed)
OutputDirCancelled_NoLower(output_dir) == output_dir \in {S_cancel, S_exit, S_quit}

\* the answer at the output directory prompt, before the directory is looked at
OutputDirCancelled(output_dir) == Lower(output_dir) \in {S_cancel, S_exit, S_quit}

\* the answer to "Create it? (y/n)"
CreateDirAccepted(create_dir) == Lower(create_dir) = S_y

(***************************************************************************)
(* Main menu.                                                              *)
(***************************************************************************)
\* the branch that main_menu takes on the line typed
MainMenuChoice(choice) ==
    IF choice = S_0 \/ Lower(choice) \in {S_q, S_exit, S_quit} THEN "exit"
    ELSE IF choice # S_1 THEN "invalid"
    ELSE "convert"

\* (mutant: one handler for everything)
TopLevelExit_AllOne(exc) == 1

\* the exit status that the handlers around main_menu() give an exception
TopLevelExit(exc) == IF exc = "KeyboardInterrupt" THEN 0 ELSE 1

\* the exit status of sys.exit in the "no media files" branch
NoMediaExit == 1

\* the exit status of sys.exit on the exit choice of the main menu
ExitChoiceExit == 0

(***************************************************************************)
(* What is typed and what the directory holds, within the bounds.          *)
(***************************************************************************)
RECURSIVE NatStr(_)
NatStr(n) == IF n < 10 THEN <<Digits[n + 1]>> ELSE NatStr(n \div 10) \o <<Digits[(n % 10) + 1]>>

\* str(k)
IntStr(k) == IF k < 0 THEN <<"-">> \o NatStr(0 - k) ELSE NatStr(k)

NumberLines == {IntStr(k) : k \in (0 - 1)..MaxIndex}

OddLines == { <<>>, <<"x">>, <<" ", "1">>, <<"+", "1">>, <<"0", "0">>, <<"1", "_">> }

\* numbers as int() also takes them: after a tab, with an underscore
GroupedLines == { <<"\t", "1">>, <<"0", "_", "1">> }

MainMenuLines ==
    NumberLines \cup OddLines \cup GroupedLines \cup
    { <<"q">>, <<"Q">>, <<"E","x","i","t">>, <<"q","u","i","t">>, <<" ","0">>, <<"1"," ">> }

EnterLines == { <<>> }

InputFormatLines ==
    NumberLines \cup OddLines \cup GroupedLines \cup { <<"q">>, <<"E","X","I","T">>, <<"q","u","i","t">>, <<" ","0"," ">> }

\* (3 is mkv in the menu; the custom formats typed are mkv too)
OutputFormatLines ==
    { <<"0">>, <<"3">>, <<"-","1">>, <<>>, <<"x">>, <<"\t","3">>, <<"0","0">>, <<"1","_">> } \cup
    { <<"c">>, <<" ","C"," ">>, <<"q">>, <<"b","a","c","k">>, <<"C","a","n","c","e","l">>,
      <<"1","7">>, <<"\t","c">> }

CustomFormatLines ==
    { <<"m","k","v">>, <<".","m","k","v">>, <<"\t","M","K","V"," ">>, <<"0">>, <<" ","0">>, <<>>,
      <<"\t",".","m","k","v">> }

\* the entries of the lists of two: -1, cancel, the first two indices, the
\* largest index that is typed, no number
IndexTokens == { IntStr(0 - 1), S_0, S_1, <<"2">>, IntStr(MaxIndex), <<"x">> }

RECURSIVE JoinComma(_)
JoinComma(parts) ==
    IF Len(parts) = 1 THEN parts[1]
    ELSE parts[1] \o <<",">> \o JoinComma(Tail(parts))

\* the entries of the longer lists: cancel, an index, no number
ListTokens == { S_0, S_1, <<"x">> }

\* lists of two entries, and longer ones
CommaLines ==
    {JoinComma(parts) : parts \in [1..2 -> IndexTokens]}
    \cup {JoinComma(parts) : parts \in UNION {[1..n -> ListTokens] : n \in 3..MaxEntries}}

SelectFilesLines ==
    NumberLines \cup OddLines \cup GroupedLines \cup CommaLines \cup
    { <<"2", ",", " ", "1">>, <<" ", "1", " ", ",", "0">>, <<"1", ",">>, <<"q">>, <<"B","a","c","k">>, <<"c","a","n","c","e","l">>, <<"e","x","i","t">> }

\* a directory that is not there at start, named with its "/" at the end
D_out == <<"o","u","t","/">>

OutputDirLines ==
    { <<>>, <<" ">> \o D_out, <<"c","a","n","c","e","l">>, <<" ","E","x","i","t">>,
      <<"q","u","i","t">> }

CreateDirLines == { <<"y">>, <<"Y">>, <<"n">>, <<>>, <<" ","y">> }

\* names of files, the k-th being the k-th of the directory at start
FileStems == << <<"a">>, <<"b">>, <<"C">>, <<"D">> >>

E_mp4 == <<".","m","p","4">>
E_mp3 == <<".","m","p","3">>
E_mkv == <<".","m","k","v">>
F_notes == <<"n","o","t","e","s",".","t","x","t">>
F_hidden == <<".","h",".","m","p","4">>
F_nested == <<"s","u","b","/","x",".","m","p","4">>

\* the directories the program may be started in, by the paths of their files
InitialDirectories ==
    { {}, {F_notes}, {F_hidden}, {F_nested}, {FileStems[1] \o E_mkv},
      {FileStems[1] \o E_mp4, FileStems[1] \o E_mp3} }
    \cup { {FileStems[i] \o E_mp4 : i \in 1..k} : k \in 1..MaxFiles }

\* what the call of convert_file for one file can meet: os.makedirs does not
\* make the directory of the output, or the user interrupts before the engine
\* is called (in os.makedirs or at the statements around it); or the engine
\* is called and converts, raises
\* ffmpeg.Error with the error text attached or (as run() does without
\* capture_stderr) with stderr None, raises another exception, or the user
\* interrupts it before it has written the output; or the user
\* interrupts after the engine has written the output and before convert_file
\* returns
EngineOutcomes ==
    {"mkdir_failed", "interrupt_early", "ok", "error_text", "error_none", "exception",
     "interrupt", "interrupt_done"}

(***************************************************************************)
(* State.                                                                  *)
(***************************************************************************)
VARIABLES
    pc,                  \* where the program is
    entries,             \* the places of the files of the file system
    dirs,                \* the places of its directories
    files_by_extension,  \* main_menu: the scan of this pass
    input_format,        \* main_menu: the key chosen
    input_files,         \* main_menu: files_by_extension[input_format]
    scan_record,         \* history: the paths of input_files as the scan of this
                         \* pass recorded them
    output_format,       \* main_menu: the output format chosen
    files_to_convert,    \* main_menu: the selection
    output_dir,          \* convert_files: the directory typed, stripped
    success_count,       \* convert_files
    failed_count,        \* convert_files
    calls,               \* the engine calls of this batch, in order
    last,                \* the step taken last: where, the line read, what came of it
    exit_code            \* the exit status, once the process has ended

vars == <<pc, entries, dirs, files_by_extension, input_format, input_files,
          scan_record, output_format, files_to_convert, output_dir, success_count,
          failed_count, calls, last, exit_code>>

NoExit == 0 - 1

\* a step: the position it was taken at, the line it read, what came of it,
\* the indices it reported as invalid, what the engine did in it
Step(op, line, out, invalid) ==
    [op |-> op, line |-> line, out |-> out, invalid |-> invalid, engine |-> ""]

EngineStep(out, engine) ==
    [op |-> "Converting", line |-> <<>>, out |-> out, invalid |-> <<>>, engine |-> engine]

\* the positions at which the program waits in input()
Prompts ==
    {"MainMenu", "InvalidPause", "NoMediaPause", "SelectInput", "SelectOutput",
     "CustomFormat", "SelectFiles", "NoFilesPause", "OutputDir", "CreateDir", "Report"}

\* the locals of a pass are dead at the head of the loop of main_menu: each is
\* assigned again before it is read
ClearPass ==
    /\ files_by_extension' = <<>>
    /\ input_format' = <<>>
    /\ input_files' = <<>>
    /\ scan_record' = {}
    /\ output_format' = <<>>
    /\ files_to_convert' = <<>>
    /\ output_dir' = <<>>
    /\ success_count' = 0
    /\ failed_count' = 0
    /\ calls' = <<>>

PassVars == <<files_by_extension, input_format, input_files, scan_record, output_format,
              files_to_convert, output_dir, success_count, failed_count, calls>>

\* the process ends with this status; its locals end with it
Terminate(code) ==
    /\ pc' = "Done"
    /\ exit_code' = code
    /\ ClearPass

\* the program waits in input() at this position, with the prompt printed
AtPrompt(p) == pc = p /\ last.out # "again"

(***************************************************************************)
(* The file system.  A place is the list of the names that lead to it from *)
(* the root.  The program runs in the directory /tmp/cwd; at start the     *)
(* file system holds that directory, its ancestors and what is in it, and  *)
(* nothing else; only the program changes it.                              *)
(***************************************************************************)
\* the place of the current directory
CwdAt == << <<"t","m","p">>, <<"c","w","d">> >>

S_dotdot == <<".", ".">>

\* the names joined by "/"
RECURSIVE JoinPath(_)
JoinPath(names) ==
    IF names = <<>> THEN <<>>
    ELSE IF Len(names) = 1 THEN names[1]
    ELSE names[1] \o <<"/">> \o JoinPath(Tail(names))

\* the file system of the state
FS == [files |-> entries, dirs |-> dirs]

\* the files of the directories the program may be started in, and the
\* directories that hold them
InitialFiles(names) == {CwdAt \o Split(f, "/") : f \in names}

InitialDirs(names) ==
    {SubSeq(CwdAt, 1, k) : k \in 0..Len(CwdAt)}
    \cup UNION {{SubSeq(f, 1, k) : k \in 0..(Len(f) - 1)} : f \in InitialFiles(names)}

\* what is at a place
KindAt(at, fs) ==
    IF at \in fs.dirs THEN "dir" ELSE IF at \in fs.files THEN "file" ELSE "none"

\* the names of a path as they are looked up one after the other: empty names
\* are skipped, and a path that ends with "/" asks for a directory, as one
\* that ends with "/." does
PathNames(path) ==
    LET raw == Split(path, "/")
        names == SelectSeq(raw, LAMBDA c : c # <<>>)
    IN  IF Len(raw) > 1 /\ raw[Len(raw)] = <<>> THEN Append(names, S_dot) ELSE names

\* the place a lookup starts at
StartAt(path) == IF path # <<>> /\ Head(path) = "/" THEN <<>> ELSE CwdAt

\* the place one name leads to from a directory: "." stays, ".." goes to the
\* parent (the root is its own parent)
StepTo(at, name) ==
    IF name = S_dot THEN at
    ELSE IF name = S_dotdot
    THEN IF at = <<>> THEN at ELSE SubSeq(at, 1, Len(at) - 1)
    ELSE Append(at, name)

\* the names looked up one after the other from a place: a name can only be
\* looked up in a directory
RECURSIVE WalkFrom(_, _, _)
WalkFrom(names, at, fs) ==
    IF names = <<>> THEN [ok |-> TRUE, at |-> at]
    ELSE IF KindAt(at, fs) # "dir" THEN [ok |-> FALSE, at |-> at]
    ELSE WalkFrom(Tail(names), StepTo(at, Head(names)), fs)

Lookup(path, fs) == WalkFrom(PathNames(path), StartAt(path), fs)

\* os.path.exists(path) in a file system
ExistsIn(path, fs) ==
    /\ path # <<>>
    /\ Lookup(path, fs).ok
    /\ KindAt(Lookup(path, fs).at, fs) # "none"

\* os.path.exists(path)
Exists(path) == ExistsIn(path, FS)

\* the directory and the name that a path gives a new entry: the slashes at
\* the end are dropped, the names before the last are looked up
ParentOf(path, fs) ==
    LET names == SelectSeq(Split(path, "/"), LAMBDA c : c # <<>>)
    IN  IF names = <<>> THEN [ok |-> FALSE, at |-> <<>>, name |-> <<>>]
        ELSE LET up == WalkFrom(SubSeq(names, 1, Len(names) - 1), StartAt(path), fs)
             IN  [ok |-> up.ok /\ KindAt(up.at, fs) = "dir",
                  at |-> up.at, name |-> names[Len(names)]]

\* os.mkdir(path): FileExistsError if the path exists (or is "/", or ends with
\* "." or ".." in a directory that exists), another OSError if its directory
\* does not; n counts the calls down to the one that does not complete
\* (n = 1: this one), whatever the reason, 0 standing for none
Mkdir(path, fs, n) ==
    LET m == IF n > 0 THEN n - 1 ELSE 0
        to == ParentOf(path, fs)
        root == path # <<>> /\ \A i \in 1..Len(path) : path[i] = "/"
    IN  IF n = 1 THEN [res |-> "Stopped", fs |-> fs, n |-> 0]
        ELSE IF root THEN [res |-> "FileExistsError", fs |-> fs, n |-> m]
        ELSE IF ~to.ok THEN [res |-> "OSError", fs |-> fs, n |-> m]
        ELSE IF to.name \in {S_dot, S_dotdot} \/ KindAt(Append(to.at, to.name), fs) # "none"
        THEN [res |-> "FileExistsError", fs |-> fs, n |-> m]
        ELSE [res |-> "ok",
              fs |-> [fs EXCEPT !.dirs = @ \cup {Append(to.at, to.name)}], n |-> m]

\* os.makedirs(name): the directories above are made first if the path above
\* does not exist, a FileExistsError of that call is passed over, and nothing
\* is left to do for a name that ends with "/."; what was made before a
\* failure stays
RECURSIVE MakeDirs(_, _, _)
MakeDirs(name, fs, n) ==
    LET split == [head |-> Dirname(name), tail |-> Basename(name)]
        head == IF split.tail = <<>> THEN Dirname(split.head) ELSE split.head
        tail == IF split.tail = <<>> THEN Basename(split.head) ELSE split.tail
    IN  IF head # <<>> /\ tail # <<>> /\ ~ExistsIn(head, fs)
        THEN LET above == MakeDirs(head, fs, n)
             IN  IF above.res \notin {"ok", "FileExistsError"} THEN above
                 ELSE IF tail = S_dot THEN [above EXCEPT !.res = "ok"]
                 ELSE Mkdir(name, above.fs, above.n)
        ELSE Mkdir(name, fs, n)

\* the engine can read its input at the path: the path leads to a file
Readable(path, fs) == Lookup(path, fs).ok /\ KindAt(Lookup(path, fs).at, fs) = "file"

\* the engine can write its output at the path: the path names an entry, other
\* than a directory, of a directory that exists
Writable(path, fs) ==
    LET to == ParentOf(path, fs)
    IN  /\ path # <<>>
        /\ path[Len(path)] # "/"
        /\ to.ok
        /\ to.name \notin {S_dot, S_dotdot}
        /\ KindAt(Append(to.at, to.name), fs) # "dir"

\* the file system after the engine wrote its output at the path
WriteFile(path, fs) ==
    [fs EXCEPT !.files = @ \cup {Append(ParentOf(path, fs).at, ParentOf(path, fs).name)}]

\* the paths, from the current directory, of what lies below it
Below(fs) ==
    {JoinPath(SubSeq(p, Len(CwdAt) + 1, Len(p))) :
        p \in {q \in fs.files \cup fs.dirs :
                 Len(q) > Len(CwdAt) /\ SubSeq(q, 1, Len(CwdAt)) = CwdAt}}

\* the state after start
Init ==
    /\ pc = "MainMenu"
    /\ \E names \in InitialDirectories :
         /\ entries = InitialFiles(names)
         /\ dirs = InitialDirs(names)
    /\ files_by_extension = <<>>
    /\ input_format = <<>>
    /\ input_files = <<>>
    /\ scan_record = {}
    /\ output_format = <<>>
    /\ files_to_convert = <<>>
    /\ output_dir = <<>>
    /\ success_count = 0
    /\ failed_count = 0
    /\ calls = <<>>
    /\ last = Step("Start", <<>>, "", <<>>)
    /\ exit_code = NoExit

(***************************************************************************)
(* Conversion Invoker.                                                     *)
(***************************************************************************)
\* (mutant: the last clause catches BaseException)
convert_file_CatchAll(outcome) ==
    CASE outcome = "ok" -> "True"
      [] outcome = "error_text" -> "False"
      [] outcome = "error_none" -> "AttributeError"
      [] outcome = "exception" -> "False"
      [] outcome = "interrupt" -> "False"
      [] outcome = "interrupt_done" -> "False"
      [] outcome = "mkdir_failed" -> "False"
      [] outcome = "interrupt_early" -> "False"

\* convert_file on what the engine call did: it returns True or False, or an
\* exception leaves it.  In the handler of ffmpeg.Error the message is built
\* from e.stderr.decode(); with stderr None that raises AttributeError inside
\* the handler, which no clause of the try statement catches.  The clause for
\* Exception does not catch KeyboardInterrupt; it does catch the OSError of
\* os.makedirs.
convert_file(outcome) ==
    CASE outcome = "ok" -> "True"
      [] outcome = "error_text" -> "False"
      [] outcome = "error_none" -> "AttributeError"
      [] outcome = "exception" -> "False"
      [] outcome = "interrupt" -> "KeyboardInterrupt"
      [] outcome = "interrupt_done" -> "KeyboardInterrupt"
      [] outcome = "mkdir_failed" -> "False"
      [] outcome = "interrupt_early" -> "KeyboardInterrupt"

(***************************************************************************)
(* Control flow of main_menu and convert_files.                            *)
(***************************************************************************)
\* (mutant: `return` for `continue`, which ends main_menu and the process)
OnNone_Return(out, next) == IF out = "none" THEN "Done" ELSE next

\* `if ... is None: continue` of main_menu: back to the head of the loop
OnNone(out, next) == IF out = "none" THEN "MainMenu" ELSE next

\* (mutant: the test `if files_to_convert:` is left out)
NextPosition_NoEmptyCheck(at, out) ==
    CASE at = "MainMenu" -> IF out = "invalid" THEN "InvalidPause" ELSE "Scanning"
      [] at = "InvalidPause" -> "MainMenu"
      [] at = "SelectInput" ->
            OnNone(out, IF out = "value" THEN "SelectOutput" ELSE "SelectInput")
      [] at = "SelectOutput" ->
            OnNone(out, IF out = "value" THEN "SelectFiles"
                        ELSE IF out = "custom" THEN "CustomFormat" ELSE "SelectOutput")
      [] at = "CustomFormat" ->
            OnNone(out, IF out = "value" THEN "SelectFiles" ELSE "SelectOutput")
      [] at = "SelectFiles" -> IF out = "again" THEN "SelectFiles" ELSE "OutputDir"
      [] at = "NoFilesPause" -> "MainMenu"
      [] at = "Report" -> "MainMenu"

\* where main_menu goes on after the step at a position came out as `out`:
\* `continue` for an invalid choice and for a selector that returned None,
\* the next selector otherwise, the batch for a selection, and the head of
\* the loop after each "Press Enter to continue..."
NextPosition(at, out) ==
    CASE at = "MainMenu" -> IF out = "invalid" THEN "InvalidPause" ELSE "Scanning"
      [] at = "InvalidPause" -> "MainMenu"
      [] at = "SelectInput" ->
            OnNone(out, IF out = "value" THEN "SelectOutput" ELSE "SelectInput")
      [] at = "SelectOutput" ->
            OnNone(out, IF out = "value" THEN "SelectFiles"
                        ELSE IF out = "custom" THEN "CustomFormat" ELSE "SelectOutput")
      [] at = "CustomFormat" ->
            OnNone(out, IF out = "value" THEN "SelectFiles" ELSE "SelectOutput")
      [] at = "SelectFiles" ->
            IF out = "again" THEN "SelectFiles"
            ELSE IF out = "selection" THEN "OutputDir" ELSE "NoFilesPause"
      [] at = "NoFilesPause" -> "MainMenu"
      [] at = "Report" -> "MainMenu"

\* where convert_files goes on after the output directory prompts: it returns
\* (0, 0) to main_menu, which reports, or asks, or starts the loop
BatchStart(out) ==
    CASE out \in {"cancelled", "declined", "failed"} -> "Report"
      [] out = "ask" -> "CreateDir"
      [] out \in {"convert", "created"} -> "Starting"

\* (mutant: the interrupt is caught inside the loop, which goes on)
BatchNext_Swallow(result, done) == IF done THEN "Report" ELSE "Converting"

\* where convert_files goes on after a turn of its loop: KeyboardInterrupt ends
\* the loop, as does the last file
BatchNext(result, done) ==
    IF result = "KeyboardInterrupt" \/ done THEN "Report" ELSE "Converting"

\* success_count and failed_count after convert_file returned or raised
CountAfter(counts, result) ==
    [success |-> IF result = "True" THEN counts.success + 1 ELSE counts.success,
     failed |-> IF result = "False" THEN counts.failed + 1 ELSE counts.failed]

(***************************************************************************)
(* Actions: one for each input() of the program, one for the scan, one for *)
(* the conversion of a file, and the interrupts.                           *)
(***************************************************************************)
\* main_menu, "Select an option (0-1): "
MainMenu ==
    /\ AtPrompt("MainMenu")
    /\ \E choice \in MainMenuLines :
         LET branch == MainMenuChoice(choice)
         IN  /\ last' = Step("MainMenu", choice, branch, <<>>)
             /\ IF branch = "exit" THEN Terminate(ExitChoiceExit)
                ELSE /\ pc' = NextPosition("MainMenu", branch)
                     /\ UNCHANGED <<PassVars, exit_code>>
    /\ UNCHANGED <<entries, dirs>>

\* main_menu, "Press Enter to continue..." after an invalid choice
InvalidPause ==
    /\ AtPrompt("InvalidPause")
    /\ \E line \in EnterLines : last' = Step("InvalidPause", line, "continue", <<>>)
    /\ pc' = NextPosition("InvalidPause", "continue")
    /\ UNCHANGED <<entries, dirs, PassVars, exit_code>>

\* main_menu calls get_media_files_in_directory(), then get_input_format_menu
\* prints the formats or finds that there are none
Scan ==
    /\ pc = "Scanning"
    /\ \E glob \in GlobChoices(Below(FS)) :
         /\ files_by_extension' = get_media_files_in_directory(glob)
         /\ pc' = (IF DOMAIN files_by_extension' = {} THEN "NoMediaPause" ELSE "SelectInput")
    /\ last' = Step("Scanning", <<>>, "", <<>>)
    /\ UNCHANGED <<entries, dirs, input_format, input_files, scan_record,
                   output_format, files_to_convert, output_dir, success_count,
                   failed_count, calls, exit_code>>

\* get_input_format_menu, "Press Enter to exit..." and sys.exit(1)
NoMediaPause ==
    /\ AtPrompt("NoMediaPause")
    /\ \E line \in EnterLines : last' = Step("NoMediaPause", line, "exit", <<>>)
    /\ Terminate(NoMediaExit)
    /\ UNCHANGED <<entries, dirs>>

\* get_input_format_menu, "Select input format (number or 0 to exit): ",
\* and main_menu on what it returns.  main_menu reads files_by_extension once
\* more, for input_files, and never again in this pass.
SelectInput ==
    /\ AtPrompt("SelectInput")
    /\ \E choice \in InputFormatLines :
         LET r == InputFormatStep(files_by_extension, choice)
         IN  /\ last' = Step("SelectInput", choice, r.kind, <<>>)
             /\ pc' = NextPosition("SelectInput", r.kind)
             /\ CASE r.kind = "none" -> ClearPass
                  [] r.kind = "again" -> UNCHANGED PassVars
                  [] r.kind = "value" ->
                       /\ input_format' = r.value
                       /\ input_files' = files_by_extension[r.value]
                       /\ scan_record' = Range(files_by_extension[r.value])
                       /\ files_by_extension' = <<>>
                       /\ UNCHANGED <<output_format, files_to_convert, output_dir,
                                      success_count, failed_count, calls>>
    /\ UNCHANGED <<entries, dirs, exit_code>>

\* get_output_format, "Select output format (number, C for custom, or 0 to
\* cancel): ", and main_menu on what it returns
SelectOutput ==
    /\ AtPrompt("SelectOutput")
    /\ \E line \in OutputFormatLines :
         LET r == OutputFormatStep(line)
         IN  /\ last' = Step("SelectOutput", line, r.kind, <<>>)
             /\ pc' = NextPosition("SelectOutput", r.kind)
             /\ CASE r.kind = "none" -> ClearPass
                  [] r.kind \in {"again", "custom"} -> UNCHANGED PassVars
                  [] r.kind = "value" ->
                       /\ output_format' = r.value
                       /\ UNCHANGED <<files_by_extension, input_format, input_files,
                                      scan_record, files_to_convert, output_dir,
                                      success_count, failed_count, calls>>
    /\ UNCHANGED <<entries, dirs, exit_code>>

\* get_output_format, "Enter custom output format (without dot, or 0 to
\* cancel): ", and main_menu on what it returns
CustomFormat ==
    /\ AtPrompt("CustomFormat")
    /\ \E line \in CustomFormatLines :
         LET r == CustomFormatStep(line)
         IN  /\ last' = Step("CustomFormat", line, r.kind, <<>>)
             /\ pc' = NextPosition("CustomFormat", r.kind)
             /\ CASE r.kind = "none" -> ClearPass
                  [] r.kind = "again" -> UNCHANGED PassVars
                  [] r.kind = "value" ->
                       /\ output_format' = r.value
                       /\ UNCHANGED <<files_by_extension, input_format, input_files,
                                      scan_record, files_to_convert, output_dir,
                                      success_count, failed_count, calls>>
    /\ UNCHANGED <<entries, dirs, exit_code>>

\* select_files_menu, "Select file to convert (...): ", and main_menu on what
\* it returns: a batch for a selection, the "No files selected" pause for none
SelectFiles ==
    /\ AtPrompt("SelectFiles")
    /\ \E choice \in SelectFilesLines :
         LET r == SelectFilesStep(input_files, choice)
             out == IF r.kind = "again" THEN "again"
                    ELSE IF r.value # <<>> THEN "selection" ELSE "empty"
         IN  /\ last' = Step("SelectFiles", choice, out, r.invalid)
             /\ pc' = NextPosition("SelectFiles", out)
             /\ files_to_convert' = (IF r.kind = "again" THEN files_to_convert ELSE r.value)
    /\ UNCHANGED <<entries, dirs, files_by_extension, input_format, input_files,
                   scan_record, output_format, output_dir, success_count,
                   failed_count, calls, exit_code>>

\* main_menu, "Press Enter to continue..." after "No files selected"
NoFilesPause ==
    /\ AtPrompt("NoFilesPause")
    /\ \E line \in EnterLines : last' = Step("NoFilesPause", line, "continue", <<>>)
    /\ pc' = NextPosition("NoFilesPause", "continue")
    /\ ClearPass
    /\ UNCHANGED <<entries, dirs, exit_code>>

\* convert_files, "Enter output directory (...): ": a cancel keyword returns
\* (0, 0), a directory that does not exist is asked about, anything else
\* starts the loop.  main_menu has passed files_to_convert and does not read
\* input_files again in this pass.
OutputDir ==
    /\ AtPrompt("OutputDir")
    /\ \E line \in OutputDirLines :
         LET dir == Strip(line)
             out == IF OutputDirCancelled(dir) THEN "cancelled"
                    ELSE IF dir # <<>> /\ ~Exists(dir) THEN "ask"
                    ELSE "convert"
         IN  /\ last' = Step("OutputDir", line, out, <<>>)
             /\ output_dir' = dir
             /\ pc' = BatchStart(out)
    /\ calls' = <<>>
    /\ input_files' = <<>>
    /\ UNCHANGED <<entries, dirs, files_by_extension, input_format, scan_record,
                   output_format, files_to_convert, success_count, failed_count,
                   exit_code>>

\* convert_files, "Directory ... doesn't exist. Create it? (y/n): " and
\* os.makedirs, which may fail, by itself or at the call of os.mkdir that the
\* system refuses, and which the user may interrupt at a call of os.mkdir:
\* KeyboardInterrupt is not caught there and reaches the handler around
\* main_menu().  What os.makedirs made before it failed stays.
CreateDir ==
    /\ AtPrompt("CreateDir")
    /\ \E create_dir \in CreateDirLines, interrupted \in BOOLEAN :
         \E stop_at \in 0..(IF CreateDirAccepted(create_dir)
                            THEN Len(PathNames(output_dir)) ELSE 0) :
           LET made == IF CreateDirAccepted(create_dir)
                       THEN MakeDirs(output_dir, FS, stop_at)
                       ELSE [res |-> "ok", fs |-> FS, n |-> 0]
               out == IF ~CreateDirAccepted(create_dir) THEN "declined"
                      ELSE IF made.res = "ok" THEN "created"
                      ELSE IF interrupted THEN "KeyboardInterrupt"
                      ELSE "failed"
           IN  /\ interrupted => CreateDirAccepted(create_dir) /\ made.res = "Stopped"
               /\ last' = Step("CreateDir", create_dir, out, <<>>)
               /\ entries' = made.fs.files
               /\ dirs' = made.fs.dirs
               /\ IF out = "KeyboardInterrupt"
                  THEN Terminate(TopLevelExit("KeyboardInterrupt"))
                  ELSE /\ pc' = BatchStart(out)
                       /\ UNCHANGED <<PassVars, exit_code>>

\* convert_files between its prompts and its loop: the two lines it prints and
\* the counts set to 0, outside the try statement
StartLoop ==
    /\ pc = "Starting"
    /\ pc' = "Converting"
    /\ success_count' = 0
    /\ failed_count' = 0
    /\ last' = Step("Starting", <<>>, "", <<>>)
    /\ UNCHANGED <<entries, dirs, files_by_extension, input_format, input_files,
                   scan_record, output_format, files_to_convert, output_dir, calls,
                   exit_code>>

\* one turn of the loop of convert_files: the output path, convert_file (which
\* makes the directory of the output if there is none, then calls the
\* engine), the count.  An exception that leaves convert_file and is no
\* KeyboardInterrupt leaves convert_files and main_menu too, and ends the
\* process, with the batch as it was when the exception was raised.  The user
\* may interrupt at a call of os.mkdir, in the engine call, after it, and
\* after convert_file has returned and before the file is counted (counted
\* FALSE): each ends the loop with the counts as they were.
ConvertOne ==
    /\ pc = "Converting"
    /\ Len(calls) < Len(files_to_convert)
    /\ \E outcome \in EngineOutcomes, counted \in BOOLEAN :
         LET input_file == files_to_convert[Len(calls) + 1]
             output_file == OutputFile(input_file, output_dir, output_format)
             output_path_dir == Dirname(output_file)
             makes_dir == output_path_dir # <<>> /\ ~Exists(output_path_dir)
         IN  \E stop_at \in 0..(IF makes_dir THEN Len(PathNames(output_path_dir)) ELSE 0) :
               LET made == IF makes_dir THEN MakeDirs(output_path_dir, FS, stop_at)
                           ELSE [res |-> "ok", fs |-> FS, n |-> 0]
                   written == outcome \in {"ok", "interrupt_done"}
                   after == IF written THEN WriteFile(output_file, made.fs) ELSE made.fs
                   result == convert_file(outcome)
                   returned == result \in {"True", "False"}
                   seen == IF returned /\ ~counted THEN "KeyboardInterrupt" ELSE result
                   counts == IF counted
                             THEN CountAfter([success |-> success_count,
                                              failed |-> failed_count], result)
                             ELSE [success |-> success_count, failed |-> failed_count]
               IN  /\ made.res \in {"FileExistsError", "OSError"} => outcome = "mkdir_failed"
                   /\ made.res = "Stopped" => outcome \in {"mkdir_failed", "interrupt_early"}
                   /\ made.res = "ok" => outcome # "mkdir_failed"
                   /\ written => Readable(input_file, made.fs) /\ Writable(output_file, made.fs)
                   /\ ~returned => counted
                   /\ entries' = after.files
                   /\ dirs' = after.dirs
                   /\ last' = EngineStep(seen, outcome)
                   /\ IF seen \notin {"True", "False", "KeyboardInterrupt"}
                      THEN /\ pc' = "Done"
                           /\ exit_code' = TopLevelExit(seen)
                           /\ UNCHANGED PassVars
                      ELSE /\ calls' = Append(calls, [input |-> input_file,
                                                      output |-> output_file,
                                                      result |-> result])
                           /\ success_count' = counts.success
                           /\ failed_count' = counts.failed
                           /\ pc' = BatchNext(seen, Len(calls') = Len(files_to_convert))
                           /\ UNCHANGED <<files_by_extension, input_format, input_files,
                                          scan_record, output_format, files_to_convert,
                                          output_dir, exit_code>>

\* the last file of the batch has just been counted: the for statement is at
\* its head, still inside the try statement, and finds no further file
AfterLastFile ==
    /\ pc = "Report"
    /\ last.op = "Converting"
    /\ last.out \in {"True", "False"}

\* Ctrl+C in the try statement of convert_files outside a turn of the loop:
\* before the first file, between two files, or after the last file was
\* counted and before the for statement is left.  The loop ends and the counts
\* stay as they are.
InterruptBatch ==
    /\ pc = "Converting" \/ AfterLastFile
    /\ pc' = BatchNext("KeyboardInterrupt", AfterLastFile)
    /\ last' = EngineStep("KeyboardInterrupt", "")
    /\ UNCHANGED <<entries, dirs, PassVars, exit_code>>

\* main_menu, "Conversion complete: ..." and "Press Enter to continue..."
Report ==
    /\ AtPrompt("Report")
    /\ \E line \in EnterLines : last' = Step("Report", line, "continue", <<>>)
    /\ pc' = NextPosition("Report", "continue")
    /\ ClearPass
    /\ UNCHANGED <<entries, dirs, exit_code>>

\* after "Please try again." the loop of a selector is at its input() again;
\* the line that was refused is history
Reprompt ==
    /\ pc \in Prompts
    /\ last.out = "again"
    /\ last' = Step(pc, <<>>, "prompt", <<>>)
    /\ UNCHANGED <<pc, entries, dirs, PassVars, exit_code>>

\* Ctrl+C while the program waits in input(): KeyboardInterrupt reaches the
\* handler around main_menu()
InputInterrupt ==
    /\ pc \in Prompts
    /\ last' = Step(pc, <<>>, "KeyboardInterrupt", <<>>)
    /\ Terminate(TopLevelExit("KeyboardInterrupt"))
    /\ UNCHANGED <<entries, dirs>>

\* Ctrl+C while the program is neither in input() nor in the try statement of
\* convert_files (the scan; the lines of convert_files before its loop):
\* KeyboardInterrupt reaches the handler around main_menu()
InterruptOutside ==
    /\ pc \in {"Scanning", "Starting"}
    /\ last' = Step(pc, <<>>, "KeyboardInterrupt", <<>>)
    /\ Terminate(TopLevelExit("KeyboardInterrupt"))
    /\ UNCHANGED <<entries, dirs>>

\* end of input while the program waits in input(): EOFError reaches the
\* handler around main_menu()
InputEOF ==
    /\ pc \in Prompts
    /\ last' = Step(pc, <<>>, "EOFError", <<>>)
    /\ Terminate(TopLevelExit("EOFError"))
    /\ UNCHANGED <<entries, dirs>>

Next ==
    \/ MainMenu
    \/ InvalidPause
    \/ Scan
    \/ NoMediaPause
    \/ SelectInput
    \/ SelectOutput
    \/ CustomFormat
    \/ SelectFiles
    \/ NoFilesPause
    \/ OutputDir
    \/ CreateDir
    \/ StartLoop
    \/ ConvertOne
    \/ InterruptBatch
    \/ InterruptOutside
    \/ Report
    \/ Reprompt
    \/ InputInterrupt
    \/ InputEOF

Spec == Init /\ [][Next]_vars

(***************************************************************************)
(* Properties.  `last` is the step just taken: the position it was taken   *)
(* at, the line it read and what came of it; the other variables are the   *)
(* state it left.                                                          *)
(***************************************************************************)
\* the exceptions that reach the handlers around main_menu()
TopLevelFailures == {"KeyboardInterrupt", "EOFError", "AttributeError"}

\* the number of calls of this batch that convert_file ended with result r
CountResult(r) == Cardinality({i \in 1..Len(calls) : calls[i].result = r})

\* the k-th path of the list in ascending order, for a list without repeats
KthSorted(files, k) ==
    CHOOSE f \in Range(files) : Cardinality({g \in Range(files) : StrLess(g, f)}) = k - 1

\* no entry of the directory, given by the paths below it, has an extension of
\* the catalog
NoMediaIn(dir) ==
    \A e \in dir : \A i \in 1..Len(media_extensions) : ~GlobMatches(e, media_extensions[i])

\* the entries of a comma-separated line, and the integers they stand for:
\* int(x.strip()) of each
EntriesOf(line) == Split(line, ",")
AllIntegers(line) == \A i \in 1..Len(EntriesOf(line)) : PyInt(Strip(EntriesOf(line)[i])).ok
IntegersOf(line) ==
    [i \in 1..Len(EntriesOf(line)) |-> PyInt(Strip(EntriesOf(line)[i])).value]
\* the list of indices holds a 0: every entry is an integer and one is 0
HasZeroEntry(line) ==
    AllIntegers(line) /\ \E i \in 1..Len(EntriesOf(line)) : IntegersOf(line)[i] = 0
\* an entry of the line reads 0, whatever the other entries are
ZeroTyped(line) == \E i \in 1..Len(EntriesOf(line)) : Strip(EntriesOf(line)[i]) = S_0

\* the line read last was a comma-separated selection
CommaSelection == last.op = "SelectFiles" /\ Contains(last.line, ",")

----
\* C1 (as stated): every cancellation at an intermediate state, the scan that
\* finds no input files included, returns control to MainMenu, and the process
\* ends only from MainMenu on the exit choice or on a top-level failure.
C1_Original ==
    /\ last.op = "NoMediaPause" => pc = "MainMenu"
    /\ pc = "Done" =>
         \/ last.op = "MainMenu" /\ last.out = "exit"
         \/ last.out \in TopLevelFailures

\* C1 (amended): a cancelled input format and a cancelled output format return
\* control to MainMenu, an empty file selection does so after its "Press Enter"
\* pause, none of them ends the process; the process ends from MainMenu on the
\* exit choice, from the "no media files" pause of the scan, or on an interrupt
\* or failure that reaches the top level.
C1_CancelReturnsToMainMenu ==
    /\ (last.op \in {"SelectInput", "SelectOutput", "CustomFormat"} /\ last.out = "none")
         => pc = "MainMenu" /\ exit_code = NoExit
    /\ (last.op = "SelectFiles" /\ last.out = "empty")
         => pc = "NoFilesPause" /\ exit_code = NoExit
    /\ (last.op = "NoFilesPause" /\ last.out = "continue")
         => pc = "MainMenu" /\ exit_code = NoExit
    /\ pc = "Done" =>
         \/ last.op = "MainMenu" /\ last.out = "exit"
         \/ last.op = "NoMediaPause" /\ last.out = "exit"
         \/ last.out \in TopLevelFailures

C1_Witness ==
    /\ last.op = "CustomFormat" /\ last.out = "none"
    /\ pc = "MainMenu"
    /\ ~NoMediaIn(Below(FS))

----
\* C2: the process ends with status 0 or 1: 0 exactly on the exit choice of the
\* main menu ('0', 'q', 'exit', 'quit' in any case) and on an interrupt that
\* reaches the top level, 1 exactly on the exit of the scan that found no media
\* file and on a failure that reaches the top level; every exit choice at the
\* main menu ends the process.
C2_ExitCodes ==
    /\ pc # "Done" => exit_code = NoExit
    /\ pc = "Done" =>
         /\ exit_code \in {0, 1}
         /\ exit_code = 0 <=>
              \/ /\ last.op = "MainMenu"
                 /\ last.line = S_0 \/ Lower(last.line) \in {S_q, S_exit, S_quit}
              \/ last.out = "KeyboardInterrupt"
         /\ exit_code = 1 <=>
              \/ last.op = "NoMediaPause" /\ last.out = "exit" /\ NoMediaIn(Below(FS))
              \/ last.out \in {"EOFError", "AttributeError"}
    /\ ( /\ last.op = "MainMenu"
         /\ last.line \in {S_0, S_q, S_Q, <<"E","x","i","t">>, S_quit} ) => pc = "Done"

C2_Witness ==
    /\ pc = "Done"
    /\ exit_code = 0
    /\ last.op = "SelectFiles"
    /\ last.out = "KeyboardInterrupt"

----
\* C3 (as stated): when the engine call or the creation of the output directory
\* fails for a file, convert_file returns False, the failed count goes up by
\* one, the process goes on, and, absent a user interrupt, the next file of the
\* batch, if there is one, is converted next.
C3_FailureIsContained ==
    ( /\ last.op = "Converting"
      /\ last.engine \in {"mkdir_failed", "error_text", "error_none", "exception"}
      /\ last.out # "KeyboardInterrupt" )
      => /\ last.out = "False"
         /\ exit_code = NoExit
         /\ failed_count = CountResult("False")
         /\ failed_count >= 1
         /\ pc = (IF Len(calls) < Len(files_to_convert) THEN "Converting" ELSE "Report")

----
\* C4 (as stated): an interrupt raised during the engine call of a file is seen
\* only after the call returned: every call of the batch ended with True or
\* False and is counted.
C4_Original ==
    pc \in {"Converting", "Report"} =>
      /\ \A i \in 1..Len(calls) : calls[i].result \in {"True", "False"}
      /\ success_count + failed_count = Len(calls)

\* an interrupt ended the turn of the loop taken last
TurnInterrupted ==
    last.op = "Converting" /\ last.out = "KeyboardInterrupt" /\ last.engine # ""

\* the calls of this batch that were counted, and those of them with result r
CountedCalls == IF TurnInterrupted THEN Len(calls) - 1 ELSE Len(calls)
CountedWith(r) == Cardinality({i \in 1..CountedCalls : calls[i].result = r})

\* C4 (amended): an interrupt raised during the engine call of a file leaves
\* convert_file at once as KeyboardInterrupt: that file is counted neither as
\* succeeded nor as failed, the batch stops, and the tally is that of the files
\* before it.  The same holds for an interrupt raised after the engine has
\* returned and before the file is counted, inside convert_file or after it
\* has returned; if the engine had succeeded, the output of the file is
\* written.
C4_InterruptCutsCallShort ==
    TurnInterrupted
      => /\ pc = "Report"
         /\ calls # <<>>
         /\ calls[Len(calls)].result =
              (IF last.engine \in {"interrupt_early", "interrupt", "interrupt_done"}
               THEN "KeyboardInterrupt"
               ELSE IF last.engine = "ok" THEN "True" ELSE "False")
         /\ \A i \in 1..(Len(calls) - 1) : calls[i].result \in {"True", "False"}
         /\ success_count + failed_count = Len(calls) - 1
         /\ success_count = CountedWith("True")
         /\ failed_count = CountedWith("False")
         /\ last.engine \in {"ok", "interrupt_done"}
              => Readable(calls[Len(calls)].output, FS)

C4_Witness ==
    /\ last.op = "Converting" /\ last.engine = "interrupt"
    /\ Len(calls) = 2
    /\ success_count = 1

----
\* C5: after an interrupt in the loop of the batch (during a turn, between two
\* turns, before the first or after the last) no further file is converted,
\* the tally is that of the files counted before the interrupt (all of the
\* batch at most, and fewer when the interrupt ended a turn), and the process
\* goes on at the report of main_menu, from where the "Press Enter" leads to
\* MainMenu.
C5_InterruptEndsBatchOnly ==
    /\ (last.op = "Converting" /\ last.out = "KeyboardInterrupt")
         => /\ pc = "Report"
            /\ exit_code = NoExit
            /\ ~ENABLED ConvertOne
            /\ success_count = CountedWith("True")
            /\ failed_count = CountedWith("False")
            /\ success_count + failed_count = CountedCalls
            /\ CountedCalls <= Len(files_to_convert)
            /\ TurnInterrupted => CountedCalls < Len(files_to_convert)
            /\ \A i \in 1..CountedCalls : calls[i].result \in {"True", "False"}
    /\ (last.op = "Report" /\ last.out = "continue")
         => pc = "MainMenu" /\ exit_code = NoExit /\ calls = <<>>

C5_Witness ==
    /\ last.op = "Converting" /\ last.out = "KeyboardInterrupt"
    /\ pc = "Report"
    /\ success_count = 1
    /\ Len(files_to_convert) = 2

----
\* the integers of the line read last that are, and are not, indices of input_files
InRange(i) == 1 <= i /\ i <= Len(input_files)
OutOfRange(i) == ~InRange(i)

\* the files at the in-range indices of the line read last, in the order typed
PickedInOrder ==
    LET picks == SelectSeq(IntegersOf(last.line), InRange)
    IN  [i \in 1..Len(picks) |-> KthSorted(input_files, picks[i])]

\* the number of times x occurs in the list
Occurrences(x, list) == Cardinality({i \in 1..Len(list) : list[i] = x})

\* C6 (as stated): a comma-separated selection with a literal 0 among its
\* entries returns the empty list, whatever the other entries are.
C6_Original ==
    (CommaSelection /\ ZeroTyped(last.line))
      => /\ last.out = "empty"
         /\ files_to_convert = <<>>
         /\ pc = "NoFilesPause"

\* C6 (amended): a comma-separated selection whose entries are all integers and
\* that has a 0 among them (a literal 0, or another entry that int() reads as
\* 0) returns the empty list, whatever the other indices are and wherever the
\* 0 stands.
C6_ZeroCancelsIntegerList ==
    (CommaSelection /\ HasZeroEntry(last.line))
      => /\ last.out = "empty"
         /\ files_to_convert = <<>>
         /\ pc = "NoFilesPause"

C6_Witness ==
    /\ CommaSelection
    /\ last.line = <<"1", ",", "0">>
    /\ Len(input_files) = 2
    /\ pc = "NoFilesPause"

----
\* C7 (as stated): for a comma-separated list of integers, every index outside
\* 1..n is reported as invalid, and the files at the indices in range are
\* returned, in the order typed.
C7_Original ==
    (CommaSelection /\ AllIntegers(last.line))
      => /\ last.invalid = SelectSeq(IntegersOf(last.line), OutOfRange)
         /\ last.out # "again"
         /\ files_to_convert = PickedInOrder

\* C7 (amended): for a comma-separated list of integers none of which is 0,
\* every index outside 1..n is reported as invalid, in the order typed; if some
\* index is in range the files at the indices in range are returned, in the
\* order typed, and if none is, nothing is returned and the selector asks again.
C7_InvalidIndicesAreSkipped ==
    ( /\ CommaSelection
      /\ AllIntegers(last.line)
      /\ \A i \in 1..Len(IntegersOf(last.line)) : IntegersOf(last.line)[i] # 0 )
      => /\ last.invalid = SelectSeq(IntegersOf(last.line), OutOfRange)
         /\ IF PickedInOrder # <<>>
            THEN /\ last.out = "selection"
                 /\ files_to_convert = PickedInOrder
                 /\ pc = "OutputDir"
            ELSE /\ last.out = "again"
                 /\ files_to_convert = <<>>
                 /\ pc = "SelectFiles"

C7_Witness ==
    /\ CommaSelection
    /\ last.line = <<"3", ",", "2">>
    /\ Len(input_files) = 2
    /\ last.invalid = <<3>>
    /\ Len(files_to_convert) = 1
    /\ pc = "OutputDir"

----
\* C8: a single index k with 1 <= k <= n returns the list that holds exactly the
\* k-th file in ascending order.
C8_SingleIndexPicksKthSorted ==
    ( /\ last.op = "SelectFiles"
      /\ ~Contains(last.line, ",")
      /\ PyInt(last.line).ok
      /\ InRange(PyInt(last.line).value) )
      => /\ last.out = "selection"
         /\ files_to_convert = <<KthSorted(input_files, PyInt(last.line).value)>>
         /\ pc = "OutputDir"

C8_Witness ==
    /\ last.op = "SelectFiles"
    /\ last.line = <<"2">>
    /\ Len(input_files) = 2
    /\ StrLess(input_files[2], input_files[1])
    /\ files_to_convert = <<input_files[1]>>

----
\* C9: the selection -1 returns the whole list in ascending order: as long as
\* the list scanned, and every path as often as it occurs there.
C9_MinusOneReturnsAllSorted ==
    ( /\ last.op = "SelectFiles"
      /\ ~Contains(last.line, ",")
      /\ PyInt(last.line).ok
      /\ PyInt(last.line).value = 0 - 1 )
      => /\ last.out = "selection"
         /\ pc = "OutputDir"
         /\ Len(files_to_convert) = Len(input_files)
         /\ \A i, j \in 1..Len(files_to_convert) :
              i < j => ~StrLess(files_to_convert[j], files_to_convert[i])
         /\ \A x \in Range(input_files) \cup Range(files_to_convert) :
              Occurrences(x, files_to_convert) = Occurrences(x, input_files)

C9_Witness ==
    /\ last.op = "SelectFiles"
    /\ last.line = <<"-", "1">>
    /\ Len(input_files) = 2
    /\ StrLess(input_files[2], input_files[1])
    /\ files_to_convert = <<input_files[2], input_files[1]>>

----
\* the batch was given up before its loop: tally (0, 0), no engine call, none
\* to come, the process alive at the report of main_menu
BatchAborted ==
    /\ last.op \in {"OutputDir", "CreateDir"}
    /\ pc = "Report"
    /\ success_count = 0
    /\ failed_count = 0
    /\ calls = <<>>
    /\ ~ENABLED ConvertOne
    /\ exit_code = NoExit

\* C10: a cancel keyword at the output directory prompt, a refusal to create a
\* directory that does not exist (which then still does not exist), and a
\* failure to create it each end the batch with tally (0, 0) and without an
\* engine call; the process goes on at the report of main_menu, from where the
\* "Press Enter" leads to MainMenu.
C10_OutputDirAbortsBatchOnly ==
    /\ ( /\ last.op = "OutputDir"
         /\ last.out \in {"cancelled", "ask", "convert"}
         /\ Lower(Strip(last.line)) \in {S_cancel, S_exit, S_quit} ) => BatchAborted
    /\ ( /\ last.op = "CreateDir"
         /\ last.out \in {"declined", "failed", "created"}
         /\ last.line \notin {<<"y">>, <<"Y">>} ) => BatchAborted /\ ~Exists(output_dir)
    /\ (last.op = "CreateDir" /\ last.out = "failed") => BatchAborted
    /\ (last.op = "Report" /\ last.out = "continue")
         => pc = "MainMenu" /\ exit_code = NoExit /\ calls = <<>>

C10_Witness ==
    /\ last.op = "CreateDir"
    /\ last.out = "declined"
    /\ output_dir = D_out
    /\ pc = "Report"

----
\* a line was read at one of the two prompts of get_output_format
OutputFormatAnswered ==
    /\ last.op \in {"SelectOutput", "CustomFormat"}
    /\ last.out \in {"none", "value", "custom", "again"}

\* the positions of a pass that come after get_output_format returned a format
AfterOutputFormat ==
    {"SelectFiles", "NoFilesPause", "OutputDir", "CreateDir", "Starting", "Converting",
     "Report"}

\* C11: whatever is typed, get_output_format returns the cancelled signal or a
\* format that is not empty and has no leading dot; a custom format that
\* begins with a dot is not returned, the selector prompts again.
C11_OutputFormatHasNoLeadingDot ==
    /\ (OutputFormatAnswered /\ last.out = "value")
         => /\ output_format # <<>>
            /\ output_format[1] # "."
            /\ pc = "SelectFiles"
    /\ (OutputFormatAnswered /\ last.out = "none")
         => /\ output_format = <<>>
            /\ pc = "MainMenu"
    /\ (OutputFormatAnswered /\ last.out \in {"custom", "again"})
         => /\ output_format = <<>>
            /\ pc \in {"SelectOutput", "CustomFormat"}
    /\ ( /\ OutputFormatAnswered
         /\ last.op = "CustomFormat"
         /\ Strip(last.line) # <<>>
         /\ Strip(last.line)[1] = "." )
         => /\ last.out = "again"
            /\ output_format = <<>>
            /\ pc = "SelectOutput"
    /\ pc \in AfterOutputFormat => output_format # <<>> /\ output_format[1] # "."

C11_Witness ==
    /\ last.op = "CustomFormat"
    /\ last.line = <<".", "m", "k", "v">>
    /\ last.out = "again"
    /\ pc = "SelectOutput"

----
\* the extensions for which the current directory holds a visible entry
ExtensionsPresent ==
    {Tail(p) : p \in {q \in Range(media_extensions) :
                        \E e \in Below(FS) : GlobMatches(e, q)}}

\* the k-th string of the set in ascending order
KthOf(S, k) == CHOOSE x \in S : Cardinality({y \in S : StrLess(y, x)}) = k - 1

\* a line was read at the prompt of get_input_format_menu
InputFormatAnswered ==
    /\ last.op = "SelectInput"
    /\ last.out \in {"none", "value", "again"}

\* C12: with formats to choose from, get_input_format_menu never raises on a
\* line typed: an exit keyword (in any case) or 0 returns the exit signal, an
\* integer k in 1..n returns the k-th extension in ascending order, and every
\* other line leaves it at its prompt with nothing returned.
C12_InputFormatSelection ==
    InputFormatAnswered =>
      /\ ExtensionsPresent # {}
      /\ exit_code = NoExit
      /\ pc # "Done"
      /\ IF \/ Lower(last.line) \in {S_q, S_exit, S_quit}
            \/ PyInt(last.line).ok /\ PyInt(last.line).value = 0
         THEN /\ last.out = "none"
              /\ input_format = <<>>
              /\ pc = "MainMenu"
         ELSE IF /\ PyInt(last.line).ok
                 /\ 1 <= PyInt(last.line).value
                 /\ PyInt(last.line).value <= Cardinality(ExtensionsPresent)
         THEN /\ last.out = "value"
              /\ input_format = KthOf(ExtensionsPresent, PyInt(last.line).value)
              /\ pc = "SelectOutput"
         ELSE /\ last.out = "again"
              /\ input_format = <<>>
              /\ pc = "SelectInput"

C12_Witness ==
    /\ InputFormatAnswered
    /\ last.line = <<"1">>
    /\ Cardinality(ExtensionsPresent) = 2
    /\ input_format = E_mp3
    /\ pc = "SelectOutput"

----
\* C13: every key of the mapping of the scan, and with it every input format
\* chosen and passed on to select_files_menu and convert_files, is an extension
\* without a leading dot.
C13_KeysHaveNoLeadingDot ==
    /\ \A ext \in DOMAIN files_by_extension : ext # <<>> /\ ext[1] # "."
    /\ input_format # <<>> => input_format[1] # "."

----
\* the path from the directory is that of an entry directly in it, which is
\* not hidden and whose name ends with the extension
DirectMatch(e, ext) ==
    /\ \A i \in 1..Len(e) : e[i] # "/"
    /\ e # <<>> /\ e[1] # "."
    /\ Len(e) >= Len(ext)
    /\ SubSeq(e, Len(e) - Len(ext) + 1, Len(e)) = ext

\* the extensions of the catalog: its patterns without the "*"
CatalogExtensions ==
    {SubSeq(media_extensions[i], 2, Len(media_extensions[i])) :
        i \in 1..Len(media_extensions)}

\* the scan of this pass has returned and its result has not been used yet
Scanned == pc \in {"SelectInput", "NoMediaPause"}

\* C14: the result of the scan has only extensions of the catalog as keys; an
\* extension of the catalog is a key exactly if an entry directly in the
\* directory matches it; every path listed under a key is ./name for an entry
\* directly in the directory whose name ends with the key; a directory without
\* a match gives the empty mapping.
C14_ScanIsExactAndFlat ==
    Scanned =>
      /\ DOMAIN files_by_extension \subseteq CatalogExtensions
      /\ \A ext \in CatalogExtensions :
           ext \in DOMAIN files_by_extension <=> \E e \in Below(FS) : DirectMatch(e, ext)
      /\ \A ext \in DOMAIN files_by_extension :
           \A i \in 1..Len(files_by_extension[ext]) :
              \E e \in Below(FS) :
                 /\ DirectMatch(e, ext)
                 /\ files_by_extension[ext][i] = <<".", "/">> \o e
      /\ (\A e \in Below(FS) : \A ext \in CatalogExtensions : ~DirectMatch(e, ext))
           => DOMAIN files_by_extension = {} /\ pc = "NoMediaPause"

C14_Witness ==
    /\ Scanned
    /\ last.op = "Scanning"
    /\ DOMAIN files_by_extension = {E_mp3, E_mp4}
    /\ files_by_extension[E_mp3] = << <<".", "/", "a", ".", "m", "p", "3">> >>

----
\* the name without the extension it was found under
StemOf(path) == SubSeq(path, 3, Len(path) - Len(input_format))

\* the output path the batch is to use for an input path: the stem with the
\* output format, below the output directory if one was given (a directory
\* typed with its "/" at the end has its separator already)
ExpectedOutput(path) ==
    (IF output_dir = <<>> \/ EndsWith(output_dir, <<"/">>) THEN output_dir
     ELSE output_dir \o <<"/">>)
       \o StemOf(path) \o <<".">> \o output_format

F_a_mp4 == <<".", "/", "a", ".", "m", "p", "4">>
F_b_mp4 == <<".", "/", "b", ".", "m", "p", "4">>
F_a_mkv == <<"a", ".", "m", "k", "v">>
F_b_mkv == <<"b", ".", "m", "k", "v">>

\* the batch of the example: a.mp4 and b.mp4, all selected, to mkv, no output
\* directory, the engine has succeeded on both, and both were counted (an
\* interrupt, if there was one, came after the last file was counted)
ExampleBatchDone ==
    /\ last.op = "Converting" /\ ~TurnInterrupted
    /\ files_to_convert = <<F_a_mp4, F_b_mp4>>
    /\ output_format = <<"m", "k", "v">>
    /\ output_dir = <<>>
    /\ Len(calls) = 2
    /\ \A i \in 1..2 : calls[i].result = "True"

\* C15: every output path handed to the engine is <output_dir>/<stem>.<output
\* format>, or <stem>.<output format> when no output directory was given, the
\* stem being the input's basename without its extension; for a.mp4 and b.mp4,
\* all selected, to mkv, no output directory and an engine that succeeds, the
\* outputs are a.mkv and b.mkv and the tally is (2, 0).
C15_OutputPaths ==
    /\ \A i \in 1..Len(calls) :
         /\ calls[i].input = files_to_convert[i]
         /\ calls[i].input = <<".", "/">> \o StemOf(calls[i].input) \o input_format
         /\ calls[i].output = ExpectedOutput(calls[i].input)
    /\ ExampleBatchDone =>
         /\ calls[1].output = F_a_mkv
         /\ calls[2].output = F_b_mkv
         /\ Readable(F_a_mkv, FS) /\ Readable(F_b_mkv, FS)
         /\ success_count = 2
         /\ failed_count = 0
         /\ pc = "Report"

C15_Witness ==
    /\ ExampleBatchDone
    /\ pc = "Report"
    /\ success_count = 2

----
\* the engine calls of this batch from which convert_file has returned
CallsReturned == Cardinality({i \in 1..Len(calls) : calls[i].result \in {"True", "False"}})

\* the loop of convert_files was left, and not by a user interrupt
LoopEndedUninterrupted ==
    /\ last.op = "Converting"
    /\ pc # "Converting"
    /\ last.out # "KeyboardInterrupt"

\* C16: throughout a batch succeeded + failed is the number of engine calls
\* that have returned and is at most the number of files selected; both counts
\* are 0 when the batch starts and never decrease in it (each is the number of
\* calls so far that returned its result, and calls are only added); when the
\* loop ends without a user interrupt, succeeded + failed is the number of
\* files selected.
C16_TallyCountsEveryFile ==
    /\ success_count + failed_count = CallsReturned
    /\ success_count + failed_count <= Len(files_to_convert)
    /\ last.op \in {"OutputDir", "CreateDir", "Starting"}
         => success_count = 0 /\ failed_count = 0
    /\ success_count = CountResult("True")
    /\ failed_count = CountResult("False")
    /\ LoopEndedUninterrupted =>
         success_count + failed_count = Len(files_to_convert)

----
\* the positions of a pass before select_files_menu is called
BeforeSelection ==
    {"MainMenu", "InvalidPause", "Scanning", "NoMediaPause", "SelectInput",
     "SelectOutput", "CustomFormat"}

\* the engine was called in the step just taken
EngineCalled == last.engine \notin {"", "mkdir_failed", "interrupt_early"}

\* C17: the engine is called only in the Converting state of a pass in which
\* an input format, then an output format, then a selection that is not empty
\* were obtained; every input path of a call is a path that the scan of this
\* pass recorded under the input format chosen; a new pass starts without
\* selection and without calls, so nothing selected earlier is converted in it.
C17_EngineOnlyAfterSelection ==
    /\ EngineCalled => last.op = "Converting"
    /\ (pc = "Converting" \/ EngineCalled \/ calls # <<>>)
         => /\ input_format # <<>>
            /\ output_format # <<>>
            /\ files_to_convert # <<>>
    /\ output_format # <<>> => input_format # <<>> /\ scan_record # {}
    /\ files_to_convert # <<>> => output_format # <<>>
    /\ \A i \in 1..Len(files_to_convert) : files_to_convert[i] \in scan_record
    /\ \A i \in 1..Len(calls) : calls[i].input = files_to_convert[i]
    /\ \A f \in scan_record :
         \E e \in Below(FS) : DirectMatch(e, input_format) /\ f = <<".", "/">> \o e
    /\ pc \in BeforeSelection => files_to_convert = <<>> /\ calls = <<>>

C17_Witness ==
    /\ EngineCalled
    /\ pc = "Converting"
    /\ Len(calls) = 1
    /\ calls[1].input = F_b_mp4
    /\ Readable(F_a_mkv, FS)
    /\ ~Exists(F_b_mkv)
    /\ scan_record = {F_a_mp4, F_b_mp4}

----
\* os.path.samefile(p, q): the two paths lead to one place of the file system
SameFile(p, q) ==
    /\ ExistsIn(p, FS)
    /\ ExistsIn(q, FS)
    /\ Lookup(p, FS).at = Lookup(q, FS).at

\* C18: convert_files never calls the engine, which overwrites its output,
\* with an output path that denotes the same file as the input path of that
\* call, whatever the input format, the output format and the output directory.
C18_OutputIsNeverTheInput ==
    \A i \in 1..Len(calls) : ~SameFile(calls[i].input, calls[i].output)

====
